---- MODULE Spec2Model ----
\* Model of the local file-versioning and conflict-reconciliation commands of
\* eigen (src-tauri/src/commands/files.rs) over a small synced-folder tree.
EXTENDS Integers, Sequences, FiniteSets, TLC

VARIABLES fs, pre, last

vars == <<fs, pre, last>>

\* ---------------------------------------------------------------- bounds
\* File contents are i bytes of value i, for i in 1..MaxByte.
MaxByte == 2
\* cleanup_versions_older_than is called with days in 0..MaxDays.
MaxDays == 1
\* Modification times lie within MaxSkew seconds before a day boundary.
MaxSkew == 1
\* The names given to the filename decoders are made of up to MaxPieces pieces.
MaxPieces == 3
\* The operating system resolves a path through at most MaxFollow symbolic
\* links (40 on Linux) and fails the call on a path with more.
MaxFollow == 2

\* ------------------------------------------------------- program constants
SecsPerDay == 86400
KB == 1024

\* ------------------------------------------------------------------ names
\* Entry names of the modelled folder. Chars gives a name as the sequence of
\* its characters, which is what the filename decoders work on.
STVERSIONS == ".stversions"
DocName == "d.t"
ConflictName == "d.sync-conflict-X.t"
SubName == "s"
NoteName == "n.t"
VDocName == "d~20231215-143022.t"
VNoteName == "n~20231215-143022.t"
HiddenName == ".h"
HiddenConflictName == ".d.sync-conflict-X.t"
LinkName == "l"
Names == {STVERSIONS, DocName, ConflictName, SubName, NoteName, VDocName, VNoteName,
          HiddenName, HiddenConflictName, LinkName}

Stamp == <<"2", "0", "2", "3", "1", "2", "1", "5", "-", "1", "4", "3", "0", "2", "2">>
ConflictMarker == <<".", "s", "y", "n", "c", "-", "c", "o", "n", "f", "l", "i", "c", "t", "-">>
Chars(name) ==
    CASE name = STVERSIONS -> <<".", "s", "t", "v", "e", "r", "s", "i", "o", "n", "s">>
      [] name = DocName -> <<"d", ".", "t">>
      [] name = ConflictName -> <<"d">> \o ConflictMarker \o <<"X", ".", "t">>
      [] name = SubName -> <<"s">>
      [] name = NoteName -> <<"n", ".", "t">>
      [] name = VDocName -> <<"d", "~">> \o Stamp \o <<".", "t">>
      [] name = VNoteName -> <<"n", "~">> \o Stamp \o <<".", "t">>
      [] name = HiddenName -> <<".", "h">>
      [] name = HiddenConflictName -> <<".", "d">> \o ConflictMarker \o <<"X", ".", "t">>
      [] name = LinkName -> <<"l">>

\* Paths are relative to folder_path; Root is folder_path itself.
Root == ""
\* Path::join
Join(base, rel) == IF base = Root THEN rel ELSE base \o "/" \o rel

PDoc == DocName
PConflict == ConflictName
PSub == SubName
PNote == Join(PSub, NoteName)
PVersions == STVERSIONS
PVDoc == Join(PVersions, VDocName)
PVSub == Join(PVersions, SubName)
PVNote == Join(PVSub, VNoteName)
\* Conflict-named files in a subdirectory, in a hidden directory, in
\* .stversions and under a hidden name; a second file and a second directory
\* directly under .stversions.
PSubConflict == Join(PSub, ConflictName)
PHidden == HiddenName
PHiddenInner == Join(PHidden, ConflictName)
PVConflict == Join(PVersions, ConflictName)
PHiddenConflict == HiddenConflictName
PVNoteTop == Join(PVersions, VNoteName)
PVHidden == Join(PVersions, HiddenName)
\* A symbolic link in the directory s.
PLink == Join(PSub, LinkName)

BaseDirs == {Root, PSub, PVersions, PVSub}
DirPaths == BaseDirs \cup {PHidden, PVHidden}
FilePaths == {PDoc, PConflict, PNote, PVDoc, PVNote,
              PSubConflict, PHiddenInner, PVConflict, PHiddenConflict, PVNoteTop}
Paths == DirPaths \cup FilePaths \cup {PLink}

\* Path::parent and Path::file_name
ParentOf == [p \in Paths \ {Root} |-> CHOOSE q \in Paths : \E n \in Names : Join(q, n) = p]
FileNameOf == [p \in Paths \ {Root} |-> CHOOSE n \in Names : Join(ParentOf[p], n) = p]
Parent(p) == ParentOf[p]
RECURSIVE Ancestors(_)
Ancestors(p) == IF p = Root THEN {} ELSE {Parent(p)} \cup Ancestors(Parent(p))
AncestorsOf == [p \in Paths |-> Ancestors(p)]
Children(d) == {p \in Paths \ {Root} : ParentOf[p] = d}

\* ------------------------------------------------------------- filesystem
Fill(b) == [i \in 1..b |-> b]
Contents == {Fill(b) : b \in 1..MaxByte}
MTimes == (SecsPerDay - MaxSkew)..SecsPerDay
Nows == {m + d * SecsPerDay : m \in MTimes, d \in 0..MaxDays}

Absent == [kind |-> "none"]
Dir == [kind |-> "dir"]
File(c, m) == [kind |-> "file", content |-> c, mtime |-> m]
\* A symbolic link to the directory `target`.
Link(target) == [kind |-> "link", target |-> target]

\* Path::exists, Path::is_dir, Path::is_file
Exists(f, p) == f[p].kind # "none"
IsDir(f, p) == f[p].kind = "dir"
IsFile(f, p) == f[p].kind = "file"
IsLink(f, p) == f[p].kind = "link"

\* Every entry lies in a directory.
Consistent(f) == \A p \in Paths \ {Root} : Exists(f, p) => IsDir(f, Parent(p))

TreeOver(dirs, files) ==
    [p \in Paths |-> IF p \in DirPaths
                         THEN (IF p \in dirs THEN Dir ELSE Absent)
                         ELSE (IF p \in DOMAIN files THEN files[p] ELSE Absent)]

\* The folder trees with directories at most at the paths of `dirPaths` and
\* files at most at the paths of `filePaths`, each modified at one of `times`.
TreesIn(dirPaths, filePaths, times) ==
    {t \in {TreeOver(dirs, files) :
                dirs \in SUBSET dirPaths,
                files \in [filePaths -> {Absent} \cup {File(c, m) : c \in Contents, m \in times}]} :
        Consistent(t)}
Trees(filePaths, times) == TreesIn(BaseDirs, filePaths, times)

\* ----------------------------------------------------------------- errors
None == [some |-> FALSE]
Some(x) == [some |-> TRUE, val |-> x]

\* SyncthingError::new: recoverable only for NotRunning, Network, Lock.
NewError(kind, message) ==
    [kind |-> kind, message |-> message,
     recoverable |-> kind \in {"NotRunning", "Network", "Lock"},
     recovery_hint |-> None]

\* The error the commands build as SyncthingError::ProcessError(msg).
ProcessError(message) == NewError("Process", message)

\* SyncthingError::not_found and SyncthingError::already_exists.
not_found(resource) ==
    [NewError("NotFound", resource \o " not found") EXCEPT !.recoverable = FALSE]
already_exists(resource) ==
    [NewError("AlreadyExists", resource \o " already exists") EXCEPT !.recoverable = FALSE]

Ok(v) == [ok |-> TRUE, val |-> v]
Err(e) == [ok |-> FALSE, err |-> e]
Unit == "()"

NoCall == [op |-> "none"]

\* No command is running: the host invokes one command at a time and takes
\* its return value before the next.
Idle == last.op = "none"

\* ------------------------------------------------------ filesystem calls
\* std::fs::create_dir_all: creates p and every missing ancestor.
create_dir_all(f, p) ==
    [q \in Paths |-> IF (q = p \/ q \in AncestorsOf[p]) /\ f[q].kind = "none"
                         THEN Dir ELSE f[q]]

\* std::fs::create_dir_all fails when p or an ancestor of p is a file.
create_dir_all_blocked(f, p) == \E q \in {p} \cup AncestorsOf[p] : IsFile(f, q)

\* std::fs::remove_file
remove_file(f, p) == [f EXCEPT ![p] = Absent]

\* std::fs::rename of a file: `to` is replaced by the file that was at `from`.
rename(f, from, to) == [f EXCEPT ![to] = f[from], ![from] = Absent]

\* What the filesystem does to one restore call: nothing goes wrong, creating
\* the parent directories fails, the copy fails before the destination is
\* opened, or the copy fails after n bytes were written to the created (or
\* truncated) destination.
RestoreFaults ==
    {[at |-> "none"], [at |-> "mkdir"], [at |-> "open"]}
        \cup {[at |-> "write", n |-> k] : k \in 0..(MaxByte - 1)}

\* ------------------------------------------------------- Version Restorer
\* restore_version, the copy step: fs::copy(&source, &dest), its error mapped
\* to ProcessError.
RestoreCopyMoves(f, source, dest, now, fault) ==
    IF IsFile(f, source) /\ ~IsDir(f, dest) /\ fault.at = "none"
        THEN [fs |-> [f EXCEPT ![dest] = File(f[source].content, now), ![source] = Absent],
              res |-> Ok(Unit)]
        ELSE [fs |-> f, res |-> Err(ProcessError("Failed to restore file"))]

RestoreCopy(f, source, dest, now, fault) ==
    IF ~IsFile(f, source) \/ IsDir(f, dest) \/ fault.at = "open"
        THEN [fs |-> f, res |-> Err(ProcessError("Failed to restore file"))]
    ELSE IF fault.at = "write" /\ fault.n < Len(f[source].content)
        THEN [fs |-> [f EXCEPT ![dest] = File(SubSeq(f[source].content, 1, fault.n), now)],
              res |-> Err(ProcessError("Failed to restore file"))]
    ELSE [fs |-> [f EXCEPT ![dest] = File(f[source].content, now)], res |-> Ok(Unit)]

\* restore_version with no overwrite gate.
RestoreGateOpen(f, dest, overwrite) == FALSE

\* restore_version, the overwrite gate: dest.exists() && !overwrite.
RestoreGate(f, dest, overwrite) == Exists(f, dest) /\ ~overwrite

\* restore_version, the source check: !source.exists().
RestoreSourceMissing(f, source) == ~Exists(f, source)

\* restore_version after its two checks: create_dir_all(parent), then the
\* copy.
RestoreWrite(f, source, dest, now, fault) ==
    IF create_dir_all_blocked(f, Parent(dest)) \/ (~IsDir(f, Parent(dest)) /\ fault.at = "mkdir")
        THEN [fs |-> f, res |-> Err(ProcessError("Failed to create directories"))]
    ELSE RestoreCopy(create_dir_all(f, Parent(dest)), source, dest, now, fault)

\* restore_version(folder_path, version_path, original_name, overwrite)
Restore(f, version_path, original_name, overwrite, now, fault) ==
    LET source == Join(PVersions, version_path)
        dest == original_name
    IN  IF RestoreSourceMissing(f, source)
            THEN [fs |-> f, res |-> Err(ProcessError("Version file not found"))]
        ELSE IF RestoreGate(f, dest, overwrite)
            THEN [fs |-> f,
                  res |-> Err(ProcessError("Destination file exists. Set overwrite=true to replace."))]
        ELSE RestoreWrite(f, source, dest, now, fault)

\* version_path names a version file or the directory .stversions/s;
\* original_name names a live file or the directory s.
VersionArgs == {VDocName, SubName}
OriginalArgs == {PDoc, PSub, PNote}

restore_version(version_path, original_name, overwrite, now, fault) ==
    LET r == Restore(fs, version_path, original_name, overwrite, now, fault)
    IN  /\ Idle
        /\ fs' = r.fs
        /\ pre' = fs
        /\ last' = [op |-> "restore_version", version_path |-> version_path,
                    original_name |-> original_name, overwrite |-> overwrite,
                    res |-> r.res]

\* restore_version reads no modification time: the restorer is checked with
\* the clock standing at one instant.
RestoreNows == {SecsPerDay}

\* The command has returned and the host has its result.
command_returns ==
    /\ ~Idle
    /\ fs' = fs
    /\ pre' = fs
    /\ last' = NoCall

InitRestore ==
    /\ fs \in Trees({PDoc, PNote, PVDoc}, RestoreNows)
    /\ pre = fs
    /\ last = NoCall

NextRestore ==
    \/ \E vp \in VersionArgs, on \in OriginalArgs, ow \in BOOLEAN, now \in RestoreNows,
          fault \in RestoreFaults :
            restore_version(vp, on, ow, now, fault)
    \/ command_returns

SpecRestore == InitRestore /\ [][NextRestore]_vars

\* ------------------------------------------------------ Conflict Resolver
\* What the filesystem does to one resolver call: nothing goes wrong, the
\* remove_file call fails, or the rename call fails.
ResolveFaults == {"none", "delete", "rename"}

\* delete_conflict_file(folder_path, conflict_file)
DiscardSwallows(f, conflict_file, fault) ==
    IF Exists(f, conflict_file) /\ IsFile(f, conflict_file) /\ fault # "delete"
        THEN [fs |-> remove_file(f, conflict_file), res |-> Ok(Unit)]
        ELSE [fs |-> f, res |-> Ok(Unit)]

Discard(f, conflict_file, fault) ==
    IF ~Exists(f, conflict_file)
        THEN [fs |-> f, res |-> Ok(Unit)]
    ELSE IF ~IsFile(f, conflict_file) \/ fault = "delete"
        THEN [fs |-> f, res |-> Err(ProcessError("Failed to delete conflict file"))]
    ELSE [fs |-> remove_file(f, conflict_file), res |-> Ok(Unit)]

\* resolve_conflict_keep_conflict, step 2: rename the conflict file to the
\* original's path if the conflict file exists.
PromoteRenameCopies(f, original_file, conflict_file, fault) ==
    IF ~Exists(f, conflict_file)
        THEN [fs |-> f, res |-> Ok(Unit)]
    ELSE IF fault = "rename"
        THEN [fs |-> f, res |-> Err(ProcessError("Failed to rename conflict file"))]
    ELSE [fs |-> [f EXCEPT ![original_file] = f[conflict_file]], res |-> Ok(Unit)]

PromoteRename(f, original_file, conflict_file, fault) ==
    IF ~Exists(f, conflict_file)
        THEN [fs |-> f, res |-> Ok(Unit)]
    ELSE IF fault = "rename"
        THEN [fs |-> f, res |-> Err(ProcessError("Failed to rename conflict file"))]
    ELSE [fs |-> rename(f, conflict_file, original_file), res |-> Ok(Unit)]

\* resolve_conflict_keep_conflict(folder_path, original_file, conflict_file):
\* step 1 deletes the original if it exists, then step 2.
PromoteRenamesFirst(f, original_file, conflict_file, fault) ==
    IF Exists(f, original_file) /\ (~IsFile(f, original_file) \/ fault = "delete")
        THEN [fs |-> f, res |-> Err(ProcessError("Failed to delete original"))]
    ELSE PromoteRename(f, original_file, conflict_file, fault)

Promote(f, original_file, conflict_file, fault) ==
    IF Exists(f, original_file) /\ (~IsFile(f, original_file) \/ fault = "delete")
        THEN [fs |-> f, res |-> Err(ProcessError("Failed to delete original"))]
    ELSE PromoteRename(IF Exists(f, original_file) THEN remove_file(f, original_file) ELSE f,
                       original_file, conflict_file, fault)

\* conflict_file names the conflict file; original_file names a live file,
\* the directory s, or the conflict file itself.
ConflictArgs == {PConflict}
PromoteOriginalArgs == {PDoc, PSub, PConflict}
DiscardArgs == {PConflict, PDoc, PSub}

delete_conflict_file(conflict_file, fault) ==
    LET r == Discard(fs, conflict_file, fault)
    IN  /\ Idle
        /\ fs' = r.fs
        /\ pre' = fs
        /\ last' = [op |-> "delete_conflict_file", conflict_file |-> conflict_file,
                    res |-> r.res]

resolve_conflict_keep_conflict(original_file, conflict_file, fault) ==
    LET r == Promote(fs, original_file, conflict_file, fault)
    IN  /\ Idle
        /\ fs' = r.fs
        /\ pre' = fs
        /\ last' = [op |-> "resolve_conflict_keep_conflict",
                    original_file |-> original_file, conflict_file |-> conflict_file,
                    res |-> r.res]

InitResolve ==
    /\ fs \in Trees({PDoc, PConflict, PNote}, RestoreNows)
    /\ pre = fs
    /\ last = NoCall

NextResolve ==
    \/ \E p \in DiscardArgs, fault \in ResolveFaults : delete_conflict_file(p, fault)
    \/ \E o \in PromoteOriginalArgs, c \in ConflictArgs, fault \in ResolveFaults :
            resolve_conflict_keep_conflict(o, c, fault)
    \/ command_returns

SpecResolve == InitResolve /\ [][NextResolve]_vars

\* ----------------------------------------------------- Storage Accountant
MB == KB * KB
GB == MB * KB

\* format!("{:.2}", bytes as f64 / unit as f64): the quotient to two
\* decimals, rounded to nearest, ties to even.
Fixed2(bytes, unit) ==
    LET q == (bytes * 100) \div unit
        r == (bytes * 100) % unit
        n == IF 2 * r > unit \/ (2 * r = unit /\ q % 2 = 1) THEN q + 1 ELSE q
    IN  ToString(n \div 100) \o "." \o (IF n % 100 < 10 THEN "0" ELSE "") \o ToString(n % 100)

\* format_bytes (TB is GB * 1024)
format_bytes(bytes) ==
    IF bytes \div GB >= KB THEN Fixed2(bytes \div KB, GB) \o " TB"
    ELSE IF bytes >= GB THEN Fixed2(bytes, GB) \o " GB"
    ELSE IF bytes >= MB THEN Fixed2(bytes, MB) \o " MB"
    ELSE IF bytes >= KB THEN Fixed2(bytes, KB) \o " KB"
    ELSE ToString(bytes) \o " B"

\* std::fs::read_dir(path): the entries of the directory, in the order `order`
\* lists them (the order is the operating system's choice).
read_dir(f, path, order) ==
    SelectSeq(order, LAMBDA p : p # Root /\ ParentOf[p] = path /\ Exists(f, p))

\* What the filesystem does to one accountant or pruner call:
\*   order       the order in which read_dir yields entries,
\*   unreadable  the directories whose read_dir fails,
\*   nometa      the files whose metadata cannot be read,
\*   undeletable the files whose remove_file fails,
\*   unremovable the directories whose remove_dir fails even when empty.
VersionEntries == {PVDoc, PVSub, PVNote}
VersionDirs == {PVersions, PVSub}
VersionFiles == {PVDoc, PVNote}
Orders == {<<PVDoc, PVSub, PVNote>>, <<PVSub, PVNote, PVDoc>>}
\* A file has one fault at most; remove_dir is reached only when every
\* read_dir before it succeeded.
Envs ==
    {e \in [order : Orders, unreadable : SUBSET VersionDirs, nometa : SUBSET VersionFiles,
            undeletable : SUBSET VersionFiles, unremovable : SUBSET VersionDirs] :
        /\ e.nometa \cap e.undeletable = {}
        /\ e.unreadable = {} \/ e.unremovable = {}}

RECURSIVE calculate_dir_size(_, _, _), SizeEntries(_, _, _, _)
\* calculate_dir_size's loop with a directory counted as one more file.
SizeEntriesCountsDirs(f, entries, env, acc) ==
    IF entries = << >> THEN Ok(acc)
    ELSE LET e == Head(entries)
         IN  IF IsDir(f, e)
                 THEN LET sub == calculate_dir_size(f, e, env)
                      IN  IF ~sub.ok THEN sub
                          ELSE SizeEntries(f, Tail(entries), env,
                                           <<acc[1] + sub.val[1], acc[2] + sub.val[2] + 1>>)
             ELSE IF IsFile(f, e) /\ e \notin env.nometa
                 THEN SizeEntries(f, Tail(entries), env,
                                  <<acc[1] + Len(f[e].content), acc[2] + 1>>)
             ELSE SizeEntries(f, Tail(entries), env, acc)

\* calculate_dir_size(path) -> Result<(total_size, file_count)>
calculate_dir_size(f, path, env) ==
    IF ~IsDir(f, path) THEN Ok(<<0, 0>>)
    ELSE IF path \in env.unreadable
        THEN Err(ProcessError("Failed to read directory"))
    ELSE SizeEntries(f, read_dir(f, path, env.order), env, <<0, 0>>)

\* calculate_dir_size, the loop over the entries.
SizeEntries(f, entries, env, acc) ==
    IF entries = << >> THEN Ok(acc)
    ELSE LET e == Head(entries)
         IN  IF IsDir(f, e)
                 THEN LET sub == calculate_dir_size(f, e, env)
                      IN  IF ~sub.ok THEN sub
                          ELSE SizeEntries(f, Tail(entries), env,
                                           <<acc[1] + sub.val[1], acc[2] + sub.val[2]>>)
             ELSE IF IsFile(f, e) /\ e \notin env.nometa
                 THEN SizeEntries(f, Tail(entries), env,
                                  <<acc[1] + Len(f[e].content), acc[2] + 1>>)
             ELSE SizeEntries(f, Tail(entries), env, acc)

VersionStorageInfo(total_bytes, file_count, exists) ==
    [total_bytes |-> total_bytes, total_formatted |-> format_bytes(total_bytes),
     file_count |-> file_count, exists |-> exists]

\* ------------------------------------------------------- Retention Pruner
CleanupResult(files_deleted, bytes_freed, success, error) ==
    [files_deleted |-> files_deleted, bytes_freed |-> bytes_freed,
     bytes_freed_formatted |-> format_bytes(bytes_freed),
     success |-> success, error |-> error]

\* The entries below .stversions, and the sets of them a failing
\* std::fs::remove_dir_all can have removed before it failed: a directory is
\* removed only after everything in it.
Below(f, d) == {p \in Paths : d \in AncestorsOf[p] /\ Exists(f, p)}
PartialRemovals(f) ==
    {S \in SUBSET Below(f, PVersions) : \A p \in S : Below(f, p) \subseteq S}
RemoveAllOutcomes(f) ==
    {[ok |-> TRUE]} \cup {[ok |-> FALSE, removed |-> S] : S \in PartialRemovals(f)}

\* std::fs::remove_dir_all(.stversions), completing.
remove_dir_contents(f, d) ==
    [p \in Paths |-> IF d \in AncestorsOf[p] THEN Absent ELSE f[p]]

remove_dir_all(f, d) ==
    [p \in Paths |-> IF p = d \/ d \in AncestorsOf[p] THEN Absent ELSE f[p]]

\* cleanup_versions(folder_path)
CleanupAll(f, env, outcome) ==
    IF ~Exists(f, PVersions)
        THEN [fs |-> f, res |-> Ok(CleanupResult(0, 0, TRUE, None))]
    ELSE LET size == calculate_dir_size(f, PVersions, env)
         IN  IF ~size.ok THEN [fs |-> f, res |-> size]
             ELSE IF outcome.ok
                 THEN [fs |-> remove_dir_all(f, PVersions),
                       res |-> Ok(CleanupResult(size.val[2], size.val[1], TRUE, None))]
             ELSE [fs |-> [p \in Paths |-> IF p \in outcome.removed THEN Absent ELSE f[p]],
                   res |-> Ok(CleanupResult(0, 0, FALSE, Some("Failed to delete versions")))]

\* get_version_storage_info without its test for an absent .stversions.
StorageInfoUnchecked(f, env) ==
    LET size == calculate_dir_size(f, PVersions, env)
    IN  IF ~size.ok THEN size
        ELSE Ok(VersionStorageInfo(size.val[1], size.val[2], TRUE))

\* get_version_storage_info(folder_path)
StorageInfo(f, env) ==
    IF ~Exists(f, PVersions) THEN Ok(VersionStorageInfo(0, 0, FALSE))
    ELSE LET size == calculate_dir_size(f, PVersions, env)
         IN  IF ~size.ok THEN size
             ELSE Ok(VersionStorageInfo(size.val[1], size.val[2], TRUE))

\* Each command is called with the filesystem behaving as one of `envs`; the
\* call is logged with the files whose metadata could not be read.
\* get_version_storage_info creating .stversions when it is missing.
report_creating_versions(envs) ==
    /\ Idle
    /\ \E env \in envs :
        /\ fs' = create_dir_all(fs, PVersions)
        /\ pre' = fs
        /\ last' = [op |-> "get_version_storage_info",
                    failed |-> {p \in env.nometa : IsFile(fs, p)},
                    res |-> StorageInfo(fs, env)]

get_version_storage_info(envs) ==
    /\ Idle
    /\ \E env \in envs :
        /\ fs' = fs
        /\ pre' = fs
        /\ last' = [op |-> "get_version_storage_info",
                    failed |-> {p \in env.nometa : IsFile(fs, p)},
                    res |-> StorageInfo(fs, env)]

cleanup_versions(envs) ==
    /\ Idle
    /\ \E env \in envs, outcome \in RemoveAllOutcomes(fs) :
        LET r == CleanupAll(fs, env, outcome)
        IN  /\ fs' = r.fs
            /\ pre' = fs
            /\ last' = [op |-> "cleanup_versions", res |-> r.res]

\* delete_old_files_recursive, the test on one file: modified < cutoff.
OlderThanOrAt(mtime, cutoff) == mtime <= cutoff

OlderThan(mtime, cutoff) == mtime < cutoff

\* delete_old_files_recursive, one old file: count it and its size if
\* remove_file succeeds, skip it otherwise.
RemoveOldCountsFailures(f, e, env, acc) ==
    [fs |-> IF e \in env.undeletable THEN f ELSE remove_file(f, e),
     acc |-> <<acc[1] + 1, acc[2] + Len(f[e].content)>>]

RemoveOld(f, e, env, acc) ==
    IF e \in env.undeletable
        THEN [fs |-> f, acc |-> acc]
        ELSE [fs |-> remove_file(f, e), acc |-> <<acc[1] + 1, acc[2] + Len(f[e].content)>>]

RECURSIVE delete_old_files_recursive(_, _, _, _), DeleteOldEntries(_, _, _, _, _)
\* delete_old_files_recursive(path, cutoff) -> Result<(deleted_count, freed_bytes)>
delete_old_files_recursive(f, path, cutoff, env) ==
    IF ~IsDir(f, path) THEN [fs |-> f, res |-> Ok(<<0, 0>>)]
    ELSE IF path \in env.unreadable
        THEN [fs |-> f, res |-> Err(ProcessError("Failed to read directory"))]
    ELSE DeleteOldEntries(f, read_dir(f, path, env.order), cutoff, env, <<0, 0>>)

\* delete_old_files_recursive, the loop over the entries.
DeleteOldEntries(f, entries, cutoff, env, acc) ==
    IF entries = << >> THEN [fs |-> f, res |-> Ok(acc)]
    ELSE LET e == Head(entries)
         IN  IF IsDir(f, e)
                 THEN LET sub == delete_old_files_recursive(f, e, cutoff, env)
                      IN  IF ~sub.res.ok THEN sub
                          ELSE DeleteOldEntries(sub.fs, Tail(entries), cutoff, env,
                                   <<acc[1] + sub.res.val[1], acc[2] + sub.res.val[2]>>)
             ELSE IF IsFile(f, e) /\ e \notin env.nometa /\ OlderThan(f[e].mtime, cutoff)
                 THEN LET r == RemoveOld(f, e, env, acc)
                      IN  DeleteOldEntries(r.fs, Tail(entries), cutoff, env, r.acc)
             ELSE DeleteOldEntries(f, Tail(entries), cutoff, env, acc)

\* cleanup_empty_dirs trying remove_dir on `path` alone, without descending.
cleanup_top_dir(f, path, env) ==
    IF IsDir(f, path) /\ Below(f, path) = {} /\ path \notin env.unremovable
        THEN [f EXCEPT ![path] = Absent]
        ELSE f

RECURSIVE cleanup_empty_dirs(_, _, _), CleanupEmptyEntries(_, _, _)
\* cleanup_empty_dirs(path): the subdirectories first, then remove_dir(path),
\* which removes an empty directory and whose error is ignored.
cleanup_empty_dirs(f, path, env) ==
    IF ~IsDir(f, path) THEN f
    ELSE LET g == IF path \in env.unreadable THEN f
                  ELSE CleanupEmptyEntries(f, read_dir(f, path, env.order), env)
         IN  IF Below(g, path) = {} /\ path \notin env.unremovable
                 THEN [g EXCEPT ![path] = Absent]
                 ELSE g

\* cleanup_empty_dirs, the loop over the entries.
CleanupEmptyEntries(f, entries, env) ==
    IF entries = << >> THEN f
    ELSE CleanupEmptyEntries(
             IF IsDir(f, Head(entries)) THEN cleanup_empty_dirs(f, Head(entries), env) ELSE f,
             Tail(entries), env)

\* cleanup_versions_older_than(folder_path, days), called at time `now`
CleanupOlderThan(f, days, now, env) ==
    IF ~Exists(f, PVersions)
        THEN [fs |-> f, res |-> Ok(CleanupResult(0, 0, TRUE, None))]
    ELSE LET cutoff == now - days * SecsPerDay
             del == delete_old_files_recursive(f, PVersions, cutoff, env)
         IN  IF ~del.res.ok THEN del
             ELSE [fs |-> cleanup_empty_dirs(del.fs, PVersions, env),
                   res |-> Ok(CleanupResult(del.res.val[1], del.res.val[2], TRUE, None))]

\* The call is logged with the directories whose listing was denied, the
\* files on which a metadata or remove_file call failed, and the empty
\* directories on which remove_dir failed.
cleanup_versions_older_than(dayArgs, nows, envs) ==
    /\ Idle
    /\ \E days \in dayArgs, now \in nows, env \in envs :
        LET r == CleanupOlderThan(fs, days, now, env)
            cutoff == now - days * SecsPerDay
        IN  /\ fs' = r.fs
            /\ pre' = fs
            /\ last' = [op |-> "cleanup_versions_older_than", days |-> days, now |-> now,
                        denied |-> {d \in env.unreadable : IsDir(fs, d)},
                        failed |-> {p \in VersionFiles :
                                      /\ IsFile(fs, p)
                                      /\ \/ p \in env.nometa
                                         \/ /\ p \in env.undeletable
                                            /\ OlderThan(fs[p].mtime, cutoff)},
                        stuck |-> {d \in env.unremovable :
                                     r.res.ok /\ IsDir(r.fs, d) /\ Below(r.fs, d) = {}},
                        res |-> r.res]

\* --------------------------------------------------------- Filename Codec
\* str::find and str::rfind of a character: its first and last index, 0 if
\* there is none.
Find(str, c) ==
    IF \E i \in 1..Len(str) : str[i] = c
        THEN CHOOSE i \in 1..Len(str) : str[i] = c /\ \A j \in 1..(i - 1) : str[j] # c
        ELSE 0
RFind(str, c) ==
    IF \E i \in 1..Len(str) : str[i] = c
        THEN CHOOSE i \in 1..Len(str) : str[i] = c /\ \A j \in (i + 1)..Len(str) : str[j] # c
        ELSE 0

\* A str is its UTF-8 bytes. A one-byte character is the byte itself; the
\* two-byte character e-acute is the bytes C3 A9, of which A9 is a
\* continuation byte. Offsets are byte offsets, counted from 0.
EAcute == <<"C3", "A9">>
ContinuationBytes == {"A9"}
is_char_boundary(str, index) ==
    \/ index = 0
    \/ index = Len(str)
    \/ index \in 1..(Len(str) - 1) /\ str[index + 1] \notin ContinuationBytes

\* str.chars().nth(n) == Some(c), for a one-byte character c
NthCharIs(str, n, c) ==
    \E k \in 1..Len(str) :
        /\ str[k] = c
        /\ Cardinality({j \in 1..(k - 1) : str[j] \notin ContinuationBytes}) = n

\* &str[begin..end]: the slice, which panics unless both ends are character
\* boundaries within the str.
SliceOk(str, begin, end) ==
    /\ begin <= end /\ end <= Len(str)
    /\ is_char_boundary(str, begin) /\ is_char_boundary(str, end)
Slice(str, begin, end) == SubSeq(str, begin + 1, end)

\* A call returns a value or panics.
Returned(v) == [panicked |-> FALSE, val |-> v]
Panicked == [panicked |-> TRUE]

\* parse_version_filename(name) -> (original, Option<formatted>)
parse_version_filename(name) ==
    LET tilde_pos == RFind(name, "~")
        before_tilde == SubSeq(name, 1, tilde_pos - 1)
        after_tilde == SubSeq(name, tilde_pos + 1, Len(name))
        dot_pos == Find(after_tilde, ".")
        version_part == IF dot_pos = 0 THEN after_tilde ELSE SubSeq(after_tilde, 1, dot_pos - 1)
        extension == IF dot_pos = 0 THEN << >> ELSE SubSeq(after_tilde, dot_pos, Len(after_tilde))
        cuts == <<<<0, 4>>, <<4, 6>>, <<6, 8>>, <<9, 11>>, <<11, 13>>, <<13, 15>>>>
    IN  IF tilde_pos # 0 /\ Len(version_part) = 15 /\ NthCharIs(version_part, 8, "-")
            THEN IF \E i \in 1..Len(cuts) : ~SliceOk(version_part, cuts[i][1], cuts[i][2])
                     THEN Panicked
                     ELSE Returned(
                            <<before_tilde \o extension,
                              Some(Slice(version_part, 0, 4) \o <<"-">>
                                   \o Slice(version_part, 4, 6) \o <<"-">>
                                   \o Slice(version_part, 6, 8) \o <<" ">>
                                   \o Slice(version_part, 9, 11) \o <<":">>
                                   \o Slice(version_part, 11, 13) \o <<":">>
                                   \o Slice(version_part, 13, 15))>>)
            ELSE Returned(<<name, None>>)

\* -------------------------------------------------------- Version Browser
\* browse_versions, one entry of the listing. A directory's modification time
\* is the operating system's: dirTime[p], None where metadata.modified()
\* fails.
VersionEntry(f, p, dirTime) ==
    LET name == Chars(FileNameOf[p])
        is_dir == IsDir(f, p)
        parsed == IF is_dir THEN <<name, None>> ELSE parse_version_filename(name).val
    IN  [name |-> name, originalName |-> parsed[1],
         type |-> IF is_dir THEN "directory" ELSE "file",
         size |-> IF is_dir THEN None ELSE Some(Len(f[p].content)),
         modTime |-> IF is_dir THEN dirTime[p] ELSE Some(f[p].mtime),
         versionTime |-> parsed[2]]

\* The comparator of browse_versions' sort_by: a before b.
ModTimeOrZero(e) == IF e.modTime.some THEN e.modTime.val ELSE 0
EntryLessOldestFirst(a, b) ==
    IF (a.type = "directory") # (b.type = "directory")
        THEN a.type = "directory"
        ELSE ModTimeOrZero(a) < ModTimeOrZero(b)

EntryLess(a, b) ==
    IF (a.type = "directory") # (b.type = "directory")
        THEN a.type = "directory"
        ELSE ModTimeOrZero(b) < ModTimeOrZero(a)

\* slice::sort_by, a stable sort: each entry goes behind the entries already
\* placed that are not after it.
RECURSIVE InsertEntry(_, _), SortEntries(_)
InsertEntry(sorted, e) ==
    IF sorted = << >> THEN <<e>>
    ELSE IF EntryLess(e, sorted[Len(sorted)])
        THEN Append(InsertEntry(SubSeq(sorted, 1, Len(sorted) - 1), e), sorted[Len(sorted)])
    ELSE Append(sorted, e)
SortEntries(entries) ==
    IF entries = << >> THEN << >>
    ELSE InsertEntry(SortEntries(SubSeq(entries, 1, Len(entries) - 1)), entries[Len(entries)])

\* Sequence map: [VersionEntry(f, p, dirTime) : p in paths]
EntriesOf(f, paths, dirTime) == [i \in 1..Len(paths) |-> VersionEntry(f, paths[i], dirTime)]

\* browse_versions: the entries pushed, in the order of read_dir; an entry
\* whose metadata cannot be read is left out.
BrowseListing(f, browse_path, env) ==
    IF ~IsDir(f, browse_path) \/ browse_path \in env.unreadable THEN << >>
    ELSE SelectSeq(read_dir(f, browse_path, env.order), LAMBDA p : p \notin env.nometa)

\* browse_versions(folder_path, prefix)
BrowseVersions(f, prefix, env, dirTime) ==
    LET browse_path == IF prefix.some THEN Join(PVersions, prefix.val) ELSE PVersions
    IN  IF ~Exists(f, browse_path) THEN Ok(<< >>)
        ELSE Ok(SortEntries(EntriesOf(f, BrowseListing(f, browse_path, env), dirTime)))

PrefixArgs == {None, Some(SubName)}
\* The directories under .stversions and the modification times the
\* operating system gives them: all Some, or any.
BrowseDirs == {PVSub, PVHidden}
DirTimes == {[d \in BrowseDirs |-> Some(t)] : t \in MTimes}
AnyDirTimes == [BrowseDirs -> {None} \cup {Some(t) : t \in MTimes}]

browse_versions(prefixes, envs, dirTimes) ==
    /\ Idle
    /\ \E prefix \in prefixes, env \in envs, dirTime \in dirTimes :
        /\ fs' = fs
        /\ pre' = fs
        /\ last' = [op |-> "browse_versions", prefix |-> prefix,
                    listed |-> BrowseListing(fs,
                                   IF prefix.some THEN Join(PVersions, prefix.val) ELSE PVersions,
                                   env),
                    res |-> BrowseVersions(fs, prefix, env, dirTime)]

\* What the filesystem does to one listing: the order of read_dir, whether
\* .stversions can be listed, the entries whose metadata cannot be read.
BrowseOrders ==
    {<<PVDoc, PVNoteTop, PVSub, PVHidden>>, <<PVHidden, PVNoteTop, PVSub, PVDoc>>,
     <<PVNoteTop, PVSub, PVDoc, PVHidden>>}
BrowseEnvs == [order : BrowseOrders, unreadable : SUBSET {PVersions}, nometa : SUBSET {PVDoc}]

InitBrowse ==
    /\ fs \in TreesIn({Root, PVersions, PVSub, PVHidden}, {PVDoc, PVNoteTop}, MTimes)
    /\ pre = fs
    /\ last = NoCall

NextBrowse ==
    \/ browse_versions(PrefixArgs, BrowseEnvs, AnyDirTimes)
    \/ command_returns

SpecBrowse == InitBrowse /\ [][NextBrowse]_vars

\* ------------------------------------------------------- Conflict Scanner
\* str::starts_with(prefix) and str::find(pattern): the index of the first
\* occurrence of the pattern, 0 if there is none; str::contains.
starts_with(str, prefix) ==
    Len(str) >= Len(prefix) /\ SubSeq(str, 1, Len(prefix)) = prefix
MatchesAt(str, pat, i) == SubSeq(str, i, i + Len(pat) - 1) = pat
FindStr(str, pat) ==
    LET hits == {i \in 1..(Len(str) - Len(pat) + 1) : MatchesAt(str, pat, i)}
    IN  IF hits = {} THEN 0 ELSE CHOOSE i \in hits : \A j \in hits : i <= j
contains(str, pat) == FindStr(str, pat) # 0

\* extract_original_filename with the extension taken from the first '.'
\* behind the marker.
extract_from_first_dot(conflict_name) ==
    LET pos == FindStr(conflict_name, ConflictMarker)
        before == SubSeq(conflict_name, 1, pos - 1)
        after == SubSeq(conflict_name, pos + 1, Len(conflict_name))
        ext_pos == Find(after, ".")
    IN  IF pos # 0
            THEN Returned(IF ext_pos # 0 THEN before \o SubSeq(after, ext_pos, Len(after))
                                          ELSE before)
            ELSE Returned(conflict_name)

\* extract_original_filename(conflict_name); find and rfind give the index
\* of a match, 0 for None, and the slices are cut at the byte offset before it.
extract_original_filename(conflict_name) ==
    LET pos == FindStr(conflict_name, ConflictMarker)
        before == SubSeq(conflict_name, 1, pos - 1)
        after == SubSeq(conflict_name, pos, Len(conflict_name))
        ext_pos == RFind(after, ".")
    IN  IF pos # 0
            THEN IF ~SliceOk(conflict_name, 0, pos - 1)
                    \/ ~SliceOk(conflict_name, pos - 1, Len(conflict_name))
                     THEN Panicked
                 ELSE IF ext_pos # 0
                     THEN IF ~SliceOk(after, ext_pos - 1, Len(after))
                              THEN Panicked
                              ELSE Returned(before \o SubSeq(after, ext_pos, Len(after)))
                 ELSE Returned(before)
            ELSE Returned(conflict_name)

\* scan_dir, the test on a directory entry: descend unless the name is hidden.
ScanDescendsAll(name) == TRUE

ScanDescends(name) == ~starts_with(name, <<".">>) /\ name # Chars(STVERSIONS)

\* scan_dir, the record pushed for one conflict file.
ConflictRecord(f, p) ==
    [name |-> p, original |-> extract_original_filename(Chars(FileNameOf[p])).val,
     size |-> Len(f[p].content), modTime |-> Some(f[p].mtime)]

\* The path of entry p as the scan reaches it through the links `via`, each
\* a link to the folder itself.
RECURSIVE ViaPath(_, _)
ViaPath(via, p) == IF via = << >> THEN p ELSE Join(Head(via), ViaPath(Tail(via), p))

\* path.is_dir() on entry e reached through `via`: it follows symbolic links,
\* and fails on a path with more than MaxFollow of them.
ScanIsDir(f, e, via) ==
    \/ IsDir(f, e)
    \/ IsLink(f, e) /\ Len(via) < MaxFollow /\ IsDir(f, f[e].target)

RECURSIVE scan_dir(_, _, _, _), ScanEntries(_, _, _, _)
\* scan_dir(dir, conflicts, base): the records it appends, `dir` being
\* reached through the links `via`. A directory that cannot be listed adds
\* nothing.
scan_dir(f, dir, via, env) ==
    IF ~IsDir(f, dir) \/ dir \in env.unreadable THEN << >>
    ELSE ScanEntries(f, read_dir(f, dir, env.order), via, env)

\* scan_dir, the loop over the entries.
ScanEntries(f, entries, via, env) ==
    IF entries = << >> THEN << >>
    ELSE LET e == Head(entries)
             name == Chars(FileNameOf[e])
             here == IF ScanIsDir(f, e, via)
                         THEN IF ~ScanDescends(name) THEN << >>
                              ELSE IF IsLink(f, e)
                                  THEN scan_dir(f, f[e].target, Append(via, e), env)
                              ELSE scan_dir(f, e, via, env)
                     ELSE IF contains(name, ConflictMarker) /\ e \notin env.nometa
                         THEN <<[ConflictRecord(f, e) EXCEPT !.name = ViaPath(via, e)]>>
                     ELSE << >>
         IN  here \o ScanEntries(f, Tail(entries), via, env)

\* scan_for_conflicts answering from a listing it took of an earlier tree.
ScanForConflictsRemembered(f, folder_path, env) ==
    Ok(scan_dir(TreeOver({Root}, PConflict :> File(Fill(1), SecsPerDay)), Root, << >>, env))

\* scan_for_conflicts failing as soon as one directory cannot be listed.
ScanForConflictsStrict(f, folder_path, env) ==
    IF \E d \in env.unreadable : IsDir(f, d)
        THEN Err(ProcessError("Failed to read directory"))
        ELSE Ok(IF Exists(f, Root) THEN scan_dir(f, Root, << >>, env) ELSE << >>)

\* scan_for_conflicts(folder_path). folder_path is the folder's own absolute
\* path; the scan starts in it whatever it is called.
ScanForConflicts(f, folder_path, env) ==
    Ok(IF Exists(f, Root) THEN scan_dir(f, Root, << >>, env) ELSE << >>)

\* The folder is reached by a plain path or by one with hidden components.
FolderArgs == {"/home/u/f", "/home/.u/.f"}
ScanOrders ==
    {<<PDoc, PConflict, PHiddenConflict, PSub, PSubConflict, PNote, PLink, PHidden,
       PHiddenInner, PVersions, PVConflict>>,
     <<PVersions, PVConflict, PHidden, PHiddenInner, PSub, PLink, PNote, PSubConflict,
       PHiddenConflict, PConflict, PDoc>>}
\* What the filesystem does to one scan: the order of read_dir, the
\* directories whose read_dir fails, the files whose metadata cannot be read.
ScanEnvs ==
    [order : ScanOrders, unreadable : SUBSET {Root, PSub}, nometa : SUBSET {PConflict, PSubConflict}]
QuietScanEnvs == {e \in ScanEnvs : e.unreadable = {} /\ e.nometa = {}}

\* The call is logged with the directories whose listing was denied and the
\* conflict files whose metadata could not be read.
scan_for_conflicts(folders, envs) ==
    /\ Idle
    /\ \E folder_path \in folders, env \in envs :
        /\ fs' = fs
        /\ pre' = fs
        /\ last' = [op |-> "scan_for_conflicts", folder_path |-> folder_path,
                    denied |-> {d \in env.unreadable : IsDir(fs, d)},
                    failed |-> {p \in env.nometa : IsFile(fs, p)},
                    res |-> ScanForConflicts(fs, folder_path, env)]

ScanDirs == {Root, PSub, PHidden, PVersions}
ScanFiles == {PDoc, PConflict, PHiddenConflict, PSubConflict, PHiddenInner, PVConflict}

InitScan ==
    /\ fs \in TreesIn(ScanDirs, ScanFiles, RestoreNows)
    /\ pre = fs
    /\ last = NoCall

NextScan ==
    \/ scan_for_conflicts(FolderArgs, ScanEnvs)
    \/ command_returns

SpecScan == InitScan /\ [][NextScan]_vars

\* The folders that hold the directory s and in it a symbolic link to the
\* folder itself.
InitLink ==
    /\ fs \in {[t EXCEPT ![PLink] = Link(Root)] :
                t \in {u \in TreesIn({Root, PSub}, {PDoc, PConflict, PSubConflict},
                                     RestoreNows) :
                          IsDir(u, PSub)}}
    /\ pre = fs
    /\ last = NoCall

NextLink ==
    \/ scan_for_conflicts(FolderArgs, QuietScanEnvs)
    \/ command_returns

SpecLink == InitLink /\ [][NextLink]_vars

\* ------------------------------------------- Filename Codec, on its own
\* The names the decoders are given: up to MaxPieces pieces, each a letter,
\* an extension, two extensions, a tilde, the conflict marker with a token,
\* e-acute, or a
\* version part: well-formed, one character short, without its dash, or
\* holding an e-acute (at bytes 3-4, at bytes 0-1, or as a sixteenth byte).
Stamp14 == SubSeq(Stamp, 1, 14)
StampNoDash == [Stamp EXCEPT ![9] = "0"]
StampSplit == <<"2", "0", "2">> \o EAcute \o SubSeq(Stamp, 5, 14)
StampLead == EAcute \o SubSeq(Stamp, 1, 7) \o SubSeq(Stamp, 9, 14)
StampWide == SubSeq(Stamp, 1, 7) \o EAcute \o SubSeq(Stamp, 9, 15)
Pieces ==
    {<<"a">>, <<".", "t">>, <<".", "t", ".", "g">>, <<"~">>, ConflictMarker \o <<"X">>, EAcute,
     Stamp, Stamp14, StampNoDash, StampSplit, StampLead, StampWide}
RECURSIVE Flatten(_)
Flatten(pieces) == IF pieces = << >> THEN << >> ELSE Head(pieces) \o Flatten(Tail(pieces))
CodecNames == {Flatten(ps) : ps \in UNION {[1..n -> Pieces] : n \in 0..MaxPieces}}

\* decode_conflict(name): extract_original_filename applied to a name.
decode_conflict(names) ==
    /\ Idle
    /\ \E name \in names :
        /\ fs' = fs
        /\ pre' = fs
        /\ last' = [op |-> "decode_conflict", name |-> name,
                    res |-> extract_original_filename(name)]

\* decode_version(name): parse_version_filename applied to a name.
decode_version(names) ==
    /\ Idle
    /\ \E name \in names :
        /\ fs' = fs
        /\ pre' = fs
        /\ last' = [op |-> "decode_version", name |-> name,
                    res |-> parse_version_filename(name)]

\* The decoders touch no file: they are run over an empty tree.
InitCodec ==
    /\ fs = [p \in Paths |-> Absent]
    /\ pre = fs
    /\ last = NoCall

NextCodec ==
    \/ decode_conflict(CodecNames)
    \/ decode_version(CodecNames)
    \/ command_returns

SpecCodec == InitCodec /\ [][NextCodec]_vars

DayArgs == 0..MaxDays

InitPrune ==
    /\ fs \in Trees(VersionFiles, MTimes)
    /\ pre = fs
    /\ last = NoCall

NextPrune ==
    \/ get_version_storage_info(Envs)
    \/ browse_versions(PrefixArgs, Envs, DirTimes)
    \/ cleanup_versions(Envs)
    \/ cleanup_versions_older_than(DayArgs, Nows, Envs)
    \/ scan_for_conflicts(FolderArgs, QuietScanEnvs)
    \/ command_returns

SpecPrune == InitPrune /\ [][NextPrune]_vars

\* ---------------------------------------------------------------- session
\* scan_for_conflicts, browse_versions or get_version_storage_info stopped
\* before it returned. The calls the three make on the way are read_dir,
\* metadata, file_type, is_dir and exists.
traversal_interrupted(ops) ==
    /\ Idle
    /\ \E op \in ops :
        /\ fs' = fs
        /\ pre' = fs
        /\ last' = [op |-> "interrupted", of |-> op]

\* A session of the host: every command of the subsystem, one after another,
\* on a folder that starts with the conflict file d.sync-conflict-X.t.
SessionEnvs ==
    {e \in Envs : e.unreadable = {} /\ e.nometa = {} /\ e.undeletable = {} /\ e.unremovable = {}}

InitSession ==
    /\ fs \in Trees({PDoc, PConflict, PVDoc}, RestoreNows)
    /\ IsFile(fs, PConflict)
    /\ pre = fs
    /\ last = NoCall

NextSession ==
    \/ \E p \in DiscardArgs, fault \in ResolveFaults : delete_conflict_file(p, fault)
    \/ \E o \in PromoteOriginalArgs, c \in ConflictArgs, fault \in ResolveFaults :
            resolve_conflict_keep_conflict(o, c, fault)
    \/ \E vp \in VersionArgs, on \in OriginalArgs, ow \in BOOLEAN, now \in RestoreNows,
          fault \in RestoreFaults :
            restore_version(vp, on, ow, now, fault)
    \/ cleanup_versions(SessionEnvs)
    \/ cleanup_versions_older_than(DayArgs, Nows, SessionEnvs)
    \/ scan_for_conflicts(FolderArgs, QuietScanEnvs)
    \/ browse_versions(PrefixArgs, SessionEnvs, DirTimes)
    \/ get_version_storage_info(SessionEnvs)
    \/ traversal_interrupted({"scan_for_conflicts", "browse_versions",
                              "get_version_storage_info"})
    \/ command_returns

SpecSession == InitSession /\ [][NextSession]_vars

\* ------------------------------------------------------------------- race
\* Two commands on one folder at a time. restore_version is taken in two
\* steps, its checks and its writes, and another command may run to its end
\* between them; nothing in the subsystem holds the destination meanwhile.
\* `pre` is the tree the checks saw, `found` what the destination held when
\* the writes began.
restore_version_checks(version_path, original_name, overwrite) ==
    LET r == Restore(fs, version_path, original_name, overwrite, SecsPerDay, [at |-> "none"])
        stops == \/ RestoreSourceMissing(fs, Join(PVersions, version_path))
                 \/ RestoreGate(fs, original_name, overwrite)
    IN  /\ Idle
        /\ fs' = fs
        /\ pre' = fs
        /\ last' = IF stops
                       THEN [op |-> "restore_version", version_path |-> version_path,
                             original_name |-> original_name, overwrite |-> overwrite,
                             found |-> fs[original_name], res |-> r.res]
                       ELSE [op |-> "restore_version_running", version_path |-> version_path,
                             original_name |-> original_name, overwrite |-> overwrite]

\* A promote or another restore runs from call to return while the restore
\* is between its checks and its writes.
concurrent_command(originals, conflicts, versions) ==
    /\ last.op = "restore_version_running"
    /\ \E r \in {Promote(fs, o, c, "none") : o \in originals, c \in conflicts}
                \cup {Restore(fs, vp, o, ow, SecsPerDay, [at |-> "none"]) :
                        vp \in versions, o \in originals, ow \in BOOLEAN} :
          /\ r.fs # fs
          /\ fs' = r.fs
    /\ UNCHANGED <<pre, last>>

restore_version_writes(now, fault) ==
    /\ last.op = "restore_version_running"
    /\ LET r == RestoreWrite(fs, Join(PVersions, last.version_path), last.original_name,
                              now, fault)
       IN  /\ fs' = r.fs
           /\ pre' = pre
           /\ last' = [op |-> "restore_version", version_path |-> last.version_path,
                       original_name |-> last.original_name, overwrite |-> last.overwrite,
                       found |-> fs[last.original_name], res |-> r.res]

InitRace ==
    /\ fs \in Trees({PDoc, PConflict, PVDoc}, RestoreNows)
    /\ pre = fs
    /\ last = NoCall

NextRace ==
    \/ \E vp \in VersionArgs, on \in OriginalArgs, ow \in BOOLEAN :
            restore_version_checks(vp, on, ow)
    \/ concurrent_command({PDoc, PNote}, ConflictArgs, {VDocName})
    \/ \E now \in RestoreNows, fault \in RestoreFaults : restore_version_writes(now, fault)
    \/ command_returns

SpecRace == InitRace /\ [][NextRace]_vars

\* The last call was restore_version; its source and destination paths.
Restored == last.op = "restore_version"
RestoreSource == Join(PVersions, last.version_path)
RestoreDest == last.original_name

\* C1: restore with overwrite=false, an existing source and an existing
\* destination fails with an error of kind AlreadyExists that carries a
\* recovery hint, and leaves the destination as it was.
C1_GateIsAlreadyExists ==
    (Restored /\ ~last.overwrite /\ Exists(pre, RestoreSource) /\ Exists(pre, RestoreDest))
        => /\ ~last.res.ok
           /\ last.res.err.kind = "AlreadyExists"
           /\ last.res.err.recovery_hint # None
           /\ fs[RestoreDest] = pre[RestoreDest]

\* C2: restore fails with an error of kind NotFound whenever the source
\* version does not exist, whatever overwrite is and whether or not the
\* destination exists.
C2_MissingSourceIsNotFound ==
    (Restored /\ ~Exists(pre, RestoreSource))
        => ~last.res.ok /\ last.res.err.kind = "NotFound"

\* C3: a successful restore had the destination absent or overwrite=true, and
\* leaves the destination a file with exactly the source's bytes, every
\* parent directory of the destination present, and the source version in
\* place with its content unchanged.
C3_RestoreCopies ==
    (Restored /\ last.res.ok)
        => /\ ~Exists(pre, RestoreDest) \/ last.overwrite
           /\ IsFile(pre, RestoreSource)
           /\ IsFile(fs, RestoreDest)
           /\ fs[RestoreDest].content = pre[RestoreSource].content
           /\ \A d \in AncestorsOf[RestoreDest] : IsDir(fs, d)
           /\ fs[RestoreSource] = pre[RestoreSource]
           /\ \A p \in Paths \ ({RestoreDest} \cup AncestorsOf[RestoreDest]) : fs[p] = pre[p]

\* C3 witness: a restore with overwrite=true replaced a destination whose
\* bytes differed from the version's, below a directory it had to create
\* first or not.
C3_Witness ==
    /\ Restored /\ last.res.ok /\ last.overwrite
    /\ IsFile(pre, RestoreDest)
    /\ pre[RestoreDest].content # pre[RestoreSource].content
    /\ fs[RestoreDest].content = pre[RestoreSource].content

\* The last call was resolve_conflict_keep_conflict (promote) or
\* delete_conflict_file (discard).
Promoted == last.op = "resolve_conflict_keep_conflict"
Discarded == last.op = "delete_conflict_file"
DeleteFailed == ProcessError("Failed to delete original")
RenameFailed == ProcessError("Failed to rename conflict file")
DiscardFailed == ProcessError("Failed to delete conflict file")
Unchanged(paths) == \A p \in paths : fs[p] = pre[p]

\* C4: promote called when the conflict file exists and the original is
\* absent succeeds (the one way it can fail is the rename call itself
\* failing, which leaves everything in place); after it the original path
\* holds a file with the conflict file's former content and modification
\* time, the conflict path no longer exists, and nothing else changed.
C4_PromoteOnlyConflict ==
    (Promoted /\ IsFile(pre, last.conflict_file) /\ ~Exists(pre, last.original_file))
        => \/ /\ last.res.ok
              /\ fs[last.original_file] = pre[last.conflict_file]
              /\ ~Exists(fs, last.conflict_file)
              /\ Unchanged(Paths \ {last.original_file, last.conflict_file})
           \/ /\ ~last.res.ok
              /\ last.res.err = RenameFailed
              /\ fs = pre

\* C4 witness: a promote with only the conflict file present succeeded.
C4_Witness ==
    /\ Promoted /\ last.res.ok
    /\ IsFile(pre, last.conflict_file) /\ ~Exists(pre, last.original_file)
    /\ IsFile(fs, last.original_file) /\ ~Exists(fs, last.conflict_file)

\* C5: promote is two steps with no rollback. Its only errors are the two
\* ProcessErrors; when deleting the original fails, the original existed and
\* nothing was changed (the rename was never attempted); when the rename
\* fails, the original is gone and the conflict file is still at its own
\* path, unchanged, as is everything else.
C5_PromoteNoRollback ==
    (Promoted /\ ~last.res.ok)
        => \/ /\ last.res.err = DeleteFailed
              /\ Exists(pre, last.original_file)
              /\ fs = pre
           \/ /\ last.res.err = RenameFailed
              /\ ~Exists(fs, last.original_file)
              /\ IsFile(fs, last.conflict_file)
              /\ Unchanged(Paths \ {last.original_file})

\* C5 witness: the delete succeeded and the rename failed, so the original
\* that was there is lost and the conflict file is not integrated.
C5_Witness ==
    /\ Promoted /\ ~last.res.ok /\ last.res.err = RenameFailed
    /\ IsFile(pre, last.original_file)
    /\ ~Exists(fs, last.original_file)
    /\ fs[last.conflict_file] = pre[last.conflict_file]

\* C6: discard on an absent path succeeds and changes nothing; on an
\* existing path it either succeeds, having removed that entry and nothing
\* else, or returns ProcessError with nothing changed; and repeating a
\* successful discard succeeds again and changes nothing.
C6_DiscardExact ==
    Discarded
        => /\ Unchanged(Paths \ {last.conflict_file})
           /\ ~Exists(pre, last.conflict_file) => (last.res.ok /\ fs = pre)
           /\ last.res.ok => ~Exists(fs, last.conflict_file)
           /\ ~last.res.ok => (last.res.err = DiscardFailed /\ Exists(pre, last.conflict_file) /\ fs = pre)
           /\ last.res.ok =>
                \A fault \in ResolveFaults :
                    Discard(fs, last.conflict_file, fault) = [fs |-> fs, res |-> Ok(Unit)]

\* C6 witness: a discard removed a conflict file while the original it
\* belongs to stayed in place.
C6_Witness ==
    /\ Discarded /\ last.res.ok /\ last.conflict_file = PConflict
    /\ IsFile(pre, PConflict) /\ ~Exists(fs, PConflict)
    /\ IsFile(fs, PDoc) /\ fs[PDoc] = pre[PDoc]

\* The last call was cleanup_versions (cleanup_all) or
\* cleanup_versions_older_than; the files a call removed.
CleanedAll == last.op = "cleanup_versions"
Pruned == last.op = "cleanup_versions_older_than"
Cutoff == last.now - last.days * SecsPerDay
RemovedFiles == {p \in FilePaths : IsFile(pre, p) /\ ~Exists(fs, p)}
RECURSIVE SizeOf(_)
SizeOf(files) ==
    IF files = {} THEN 0
    ELSE LET p == CHOOSE q \in files : TRUE
         IN  Len(pre[p].content) + SizeOf(files \ {p})

\* C7: after a cleanup_all that reports success, .stversions is gone: a
\* following report has exists = false with zero bytes and zero files, and
\* a following list, with or without a prefix, returns the empty list.
C7_CleanupAllLeavesNothing ==
    (CleanedAll /\ last.res.ok /\ last.res.val.success)
        => /\ \A env \in Envs : StorageInfo(fs, env) = Ok(VersionStorageInfo(0, 0, FALSE))
           /\ \A env \in Envs, prefix \in PrefixArgs, dirTime \in DirTimes :
                BrowseVersions(fs, prefix, env, dirTime) = Ok(<< >>)

\* C7 witness: cleanup_all succeeded on a .stversions tree that held a file
\* at the top and a file in a subdirectory.
C7_Witness ==
    /\ CleanedAll /\ last.res.ok /\ last.res.val.success
    /\ IsFile(pre, PVDoc) /\ IsFile(pre, PVNote)
    /\ last.res.val.files_deleted = 2

\* C8: cleanup_all returns a result value in every case, never an error:
\* zero counts and success=true when .stversions is absent, and otherwise
\* either success=true with the counts measured before the deletion or
\* success=false with an error message and zero counts.
C8_CleanupAllAlwaysAResult ==
    CleanedAll
        => /\ last.res.ok
           /\ ~Exists(pre, PVersions)
                => (last.res.val = CleanupResult(0, 0, TRUE, None) /\ fs = pre)
           /\ last.res.val.success
                => /\ ~Exists(fs, PVersions)
                   /\ last.res.val.error = None
                   /\ \E env \in Envs :
                        calculate_dir_size(pre, PVersions, env)
                            = Ok(<<last.res.val.bytes_freed, last.res.val.files_deleted>>)
           /\ ~last.res.val.success
                => /\ last.res.val.error # None
                   /\ last.res.val.files_deleted = 0
                   /\ last.res.val.bytes_freed = 0

\* C9: cleanup_older_than removes a file only if its modification time is
\* strictly earlier than now - days * 86400: every file modified at or after
\* the cutoff is still there, unchanged, whatever the call returns; and when
\* the call returns its result, every strictly older file on which no
\* filesystem call failed is gone.
C9_StrictCutoff ==
    Pruned
        => \A p \in FilePaths :
              IsFile(pre, p)
                => /\ pre[p].mtime >= Cutoff => fs[p] = pre[p]
                   /\ (last.res.ok /\ pre[p].mtime < Cutoff /\ p \notin last.failed)
                        => ~Exists(fs, p)

\* C9 witness: with days = 0 a file modified exactly at `now` survived while
\* a file modified one second earlier was removed.
C9_Witness ==
    /\ Pruned /\ last.res.ok /\ last.days = 0
    /\ \E p \in VersionFiles : IsFile(pre, p) /\ pre[p].mtime = last.now /\ fs[p] = pre[p]
    /\ \E p \in VersionFiles : IsFile(pre, p) /\ pre[p].mtime = last.now - 1 /\ ~Exists(fs, p)

\* C10: the counts cleanup_older_than returns are the number and the total
\* size of the files it removed; a file on which a filesystem call failed
\* stays in place uncounted; such failures never make the call fail (only a
\* directory that cannot be listed does) and never stop the traversal.
C10_CountsAreActual ==
    Pruned
        => /\ last.res.ok
                => /\ last.res.val.success
                   /\ last.res.val.files_deleted = Cardinality(RemovedFiles)
                   /\ last.res.val.bytes_freed = SizeOf(RemovedFiles)
                   /\ \A p \in last.failed : fs[p] = pre[p]
                   /\ \A p \in VersionFiles \ last.failed :
                        (IsFile(pre, p) /\ pre[p].mtime < Cutoff) => p \in RemovedFiles
           /\ last.denied = {} => last.res.ok

\* C10 witness: one old file could not be deleted and stayed, the other old
\* file was deleted and is the only one counted.
C10_Witness ==
    /\ Pruned /\ last.res.ok
    /\ \E p \in last.failed : IsFile(pre, p) /\ pre[p].mtime < Cutoff /\ fs[p] = pre[p]
    /\ last.res.val.files_deleted = 1
    /\ Cardinality(RemovedFiles) = 1

\* C11: the files_deleted and bytes_freed cleanup_all returns are the number
\* and the total size of the files that call removed from the versions tree,
\* in every outcome, a recursive delete that fails partway included.
C11_CleanupAllCountsActual ==
    (CleanedAll /\ last.res.ok)
        => /\ last.res.val.files_deleted = Cardinality(RemovedFiles)
           /\ last.res.val.bytes_freed = SizeOf(RemovedFiles)

\* The last call was scan_for_conflicts, browse_versions (list) or
\* get_version_storage_info (report); the path a list call resolved.
Scanned == last.op = "scan_for_conflicts"
Listed == last.op = "browse_versions"
Reported == last.op = "get_version_storage_info"
ListedPath == IF last.prefix.some THEN Join(PVersions, last.prefix.val) ELSE PVersions

\* C12: absence is an empty result, never an error: a scan of a folder that
\* does not exist returns the empty list, a list of a .stversions path (or
\* sub-prefix) that does not exist returns the empty list, a report for a
\* folder without .stversions returns 0 bytes, "0 B", 0 files, exists=false;
\* and none of the three creates anything.
C12_AbsenceIsEmpty ==
    /\ (Scanned /\ ~Exists(pre, Root)) => (last.res = Ok(<< >>) /\ fs = pre)
    /\ (Listed /\ ~Exists(pre, ListedPath)) => (last.res = Ok(<< >>) /\ fs = pre)
    /\ (Reported /\ ~Exists(pre, PVersions))
            => /\ last.res = Ok([total_bytes |-> 0, total_formatted |-> "0 B",
                                 file_count |-> 0, exists |-> FALSE])
               /\ fs = pre

\* C12 witness: a report on a folder that exists and has no .stversions.
C12_Witness ==
    /\ Reported /\ Exists(pre, Root) /\ ~Exists(pre, PVersions)
    /\ last.res.ok /\ ~last.res.val.exists

\* The paths the records of a scan name; whether an entry's own name starts
\* with '.'; the conflict-named files of a tree that lie under no hidden
\* directory below the root.
RecordPaths == {last.res.val[i].name : i \in 1..Len(last.res.val)}
HiddenEntry(p) == Chars(FileNameOf[p])[1] = "."
ConflictNamed(p) ==
    \E i \in 1..(Len(Chars(FileNameOf[p])) - Len(ConflictMarker) + 1) :
        SubSeq(Chars(FileNameOf[p]), i, i + Len(ConflictMarker) - 1) = ConflictMarker
Reportable(f) ==
    {p \in FilePaths :
        /\ IsFile(f, p) /\ ConflictNamed(p)
        /\ \A d \in AncestorsOf[p] \ {Root} : ~HiddenEntry(d)}

\* C13: a scan returns one record for each file whose name contains
\* ".sync-conflict-" and that is reached from the root through directories
\* whose names do not start with '.', and no other record: nothing inside
\* .stversions or a hidden directory is reported, and the root is traversed
\* whatever its own path is. (A file is left out only when its metadata or
\* the listing of a directory above it could not be read.)
C13_ScanReportsExactly ==
    Scanned
        => /\ last.res.ok
           /\ RecordPaths \subseteq Reportable(pre)
           /\ Len(last.res.val) = Cardinality(RecordPaths)
           /\ \A i \in 1..Len(last.res.val) :
                last.res.val[i] = ConflictRecord(pre, last.res.val[i].name)
           /\ \A p \in Reportable(pre) :
                (p \notin last.failed /\ last.denied \cap ({Root} \cup AncestorsOf[p]) = {})
                    => p \in RecordPaths
           /\ \A p \in {PHiddenInner, PVConflict} : p \notin RecordPaths

\* C13 witness: a scan of a folder reached by a path with hidden components,
\* holding conflict files at the top, in s, in .h and in .stversions,
\* returned the first two.
C13_Witness ==
    /\ Scanned /\ last.folder_path = "/home/.u/.f"
    /\ \A p \in {PConflict, PSubConflict, PHiddenInner, PVConflict} : IsFile(pre, p)
    /\ ~Exists(pre, PHiddenConflict)
    /\ RecordPaths = {PConflict, PSubConflict}

\* C14: hidden entries are skipped wherever they occur: no record of a scan
\* names an entry whose own name starts with '.', be it a directory or a
\* file.
C14_NoHiddenRecords ==
    Scanned => \A p \in RecordPaths : ~HiddenEntry(p)

\* The result of a list call; the sort key of an entry; the place of a name
\* in the enumeration the call was given.
ListResult == last.res.val
ModifiedAtOrZero(entry) == IF entry.modTime = None THEN 0 ELSE entry.modTime.val
EnumIndex(name) ==
    CHOOSE k \in 1..Len(last.listed) : Chars(FileNameOf[last.listed[k]]) = name

\* C15: list returns the direct children of the resolved path with every
\* directory before every file and, among directories and among files,
\* modified_at non-increasing, a missing modified_at counting as 0; entries
\* with equal keys keep their enumeration order.
C15_ListOrder ==
    (Listed /\ Exists(pre, ListedPath))
        => /\ last.res.ok
           /\ Len(ListResult) = Len(last.listed)
           /\ {ListResult[i].name : i \in 1..Len(ListResult)}
                = {Chars(FileNameOf[last.listed[k]]) : k \in 1..Len(last.listed)}
           /\ \A k \in 1..Len(last.listed) :
                Parent(last.listed[k]) = ListedPath /\ Exists(pre, last.listed[k])
           /\ \A i, j \in 1..Len(ListResult) :
                i < j =>
                    /\ ListResult[j].type = "directory" => ListResult[i].type = "directory"
                    /\ ListResult[i].type = ListResult[j].type
                        => /\ ModifiedAtOrZero(ListResult[i]) >= ModifiedAtOrZero(ListResult[j])
                           /\ ModifiedAtOrZero(ListResult[i]) = ModifiedAtOrZero(ListResult[j])
                                => EnumIndex(ListResult[i].name) < EnumIndex(ListResult[j].name)

\* C15 witness: a listing of two directories, one without a modification
\* time, and two files modified at the same second, enumerated with a file
\* first.
C15_Witness ==
    /\ Listed /\ last.res.ok /\ Len(ListResult) = 4
    /\ IsFile(pre, last.listed[1])
    /\ ListResult[1].modTime # None /\ ListResult[2].modTime = None
    /\ ListResult[3].modTime = ListResult[4].modTime
    /\ ListResult[2].type = "directory" /\ ListResult[3].type = "file"

\* The files at any depth under .stversions when the last command was called.
VersionFilesOf(f) == {p \in FilePaths : IsFile(f, p) /\ PVersions \in AncestorsOf[p]}

\* C16: when .stversions exists, a report has exists=true, total_bytes the
\* sum of the sizes of all regular files at any depth under .stversions and
\* file_count the number of those files; directories add nothing. (The call
\* returns a report when every directory under .stversions can be listed;
\* the figures leave out a file only if its metadata could not be read.)
C16_ReportSums ==
    (Reported /\ Exists(pre, PVersions) /\ last.res.ok)
        => /\ last.res.val.exists
           /\ last.res.val.total_bytes = SizeOf(VersionFilesOf(pre) \ last.failed)
           /\ last.res.val.file_count = Cardinality(VersionFilesOf(pre) \ last.failed)
           /\ last.res.val.total_formatted = format_bytes(last.res.val.total_bytes)
           /\ fs = pre

\* C16 witness: a report over a file directly under .stversions and a file
\* in a subdirectory of it counted both.
C16_Witness ==
    /\ Reported /\ last.res.ok /\ last.failed = {}
    /\ IsFile(pre, PVDoc) /\ IsFile(pre, PVNote)
    /\ last.res.val.file_count = 2
    /\ last.res.val.total_bytes = Len(pre[PVDoc].content) + Len(pre[PVNote].content)

\* The last call was decode_conflict or decode_version; the name it was
\* given; where the marker first starts in that name and where its last '.'
\* and last '~' are (0 if there is none).
DecodedConflict == last.op = "decode_conflict"
DecodedVersion == last.op = "decode_version"
MarkerStarts ==
    {i \in 1..(Len(last.name) - Len(ConflictMarker) + 1) :
        SubSeq(last.name, i, i + Len(ConflictMarker) - 1) = ConflictMarker}
FirstMarker == IF MarkerStarts = {} THEN 0
               ELSE CHOOSE i \in MarkerStarts : \A j \in MarkerStarts : i <= j
Dots == {i \in 1..Len(last.name) : last.name[i] = "."}
LastDot == IF Dots = {} THEN 0 ELSE CHOOSE i \in Dots : \A j \in Dots : j <= i

\* C17: decode_conflict returns a name without ".sync-conflict-" unchanged;
\* for a name with it the result is the text before the first occurrence of
\* the marker followed by the text from the last '.' of the name onward.
C17_DecodeConflict ==
    DecodedConflict
        => /\ ~last.res.panicked
           /\ MarkerStarts = {} => last.res.val = last.name
           /\ MarkerStarts # {}
                => last.res.val = SubSeq(last.name, 1, FirstMarker - 1)
                                    \o SubSeq(last.name, LastDot, Len(last.name))

\* C17 witness: a.sync-conflict-X.t.g was decoded to a.g.
C17_Witness ==
    /\ DecodedConflict
    /\ last.name = <<"a">> \o ConflictMarker \o <<"X", ".", "t", ".", "g">>
    /\ last.res = Returned(<<"a", ".", "g">>)

\* C18: for a conflict name with no '.' behind the marker, decode_conflict
\* returns the text before the marker alone: marker and token stripped, no
\* extension appended.
C18_NoExtensionStripsMarker ==
    (DecodedConflict /\ MarkerStarts # {} /\ LastDot = FirstMarker)
        => last.res = Returned(SubSeq(last.name, 1, FirstMarker - 1))

\* The parts of the name given to decode_version, as the claim names them:
\* the last '~', the text behind it, the first '.' of that text, the version
\* part up to that '.', and the characters of the version part.
Tildes == {i \in 1..Len(last.name) : last.name[i] = "~"}
LastTilde == IF Tildes = {} THEN 0 ELSE CHOOSE i \in Tildes : \A j \in Tildes : j <= i
BeforeTilde == SubSeq(last.name, 1, LastTilde - 1)
AfterTilde == SubSeq(last.name, LastTilde + 1, Len(last.name))
DotsAfterTilde == {i \in 1..Len(AfterTilde) : AfterTilde[i] = "."}
FirstDotAfterTilde ==
    IF DotsAfterTilde = {} THEN Len(AfterTilde) + 1
    ELSE CHOOSE i \in DotsAfterTilde : \A j \in DotsAfterTilde : i <= j
VersionPart == SubSeq(AfterTilde, 1, FirstDotAfterTilde - 1)
FromFirstDot == SubSeq(AfterTilde, FirstDotAfterTilde, Len(AfterTilde))
RECURSIVE CharactersOf(_)
CharactersOf(str) ==
    IF str = << >> THEN << >>
    ELSE IF Len(str) >= 2 /\ str[2] \in ContinuationBytes
        THEN <<SubSeq(str, 1, 2)>> \o CharactersOf(SubSeq(str, 3, Len(str)))
    ELSE <<SubSeq(str, 1, 1)>> \o CharactersOf(Tail(str))
PartCharacters == CharactersOf(VersionPart)
MatchesGrammar ==
    LastTilde # 0 /\ Len(PartCharacters) = 15 /\ PartCharacters[9] = <<"-">>
CharactersFrom(a, b) == Flatten(SubSeq(PartCharacters, a, b))

\* C19: decode_version splits the name at its last '~' and takes the text up
\* to the first '.' behind it as the version part; if that part is exactly
\* 15 characters with '-' at index 8 the result is (text before the tilde +
\* text from that '.' onward, "YYYY-MM-DD HH:MM:SS" from the fixed offsets),
\* and in every other case it is (name unchanged, None).
C19_DecodeVersion ==
    DecodedVersion
        => IF MatchesGrammar
               THEN last.res = Returned(
                        <<BeforeTilde \o FromFirstDot,
                          Some(CharactersFrom(1, 4) \o <<"-">> \o CharactersFrom(5, 6)
                               \o <<"-">> \o CharactersFrom(7, 8) \o <<" ">>
                               \o CharactersFrom(10, 11) \o <<":">> \o CharactersFrom(12, 13)
                               \o <<":">> \o CharactersFrom(14, 15))>>)
               ELSE last.res = Returned(<<last.name, None>>)

\* C20: filename decoding is total: for every name, names with characters
\* of more than one byte included, decode_conflict and decode_version return
\* a value and never abort, and a version part that does not match the
\* grammar yields (name unchanged, None).
C20_DecodingIsTotal ==
    (DecodedConflict \/ DecodedVersion)
        => /\ ~last.res.panicked
           /\ (DecodedVersion /\ ~MatchesGrammar) => last.res = Returned(<<last.name, None>>)

\* C21: a subdirectory that cannot be listed, or an entry whose metadata
\* cannot be read, never aborts a scan: the scan returns successfully with
\* every conflict file of the readable parts of the tree, and leaves out
\* only what lies under the unreadable directory and the unreadable entry.
C21_ScanToleratesFailures ==
    (Scanned /\ (last.denied # {} \/ last.failed # {}))
        => /\ last.res.ok
           /\ RecordPaths
                = {p \in Reportable(pre) :
                        /\ p \notin last.failed
                        /\ last.denied \cap ({Root} \cup AncestorsOf[p]) = {}}

\* C21 witness: with s unreadable and the metadata of the top-level conflict
\* file unreadable, the scan returned the hidden conflict file alone.
C21_Witness ==
    /\ Scanned /\ last.denied = {PSub} /\ last.failed = {PConflict}
    /\ IsFile(pre, PSubConflict) /\ IsFile(pre, PHiddenConflict)
    /\ last.res.ok /\ RecordPaths = {PHiddenConflict}

\* C26: promote never loses the conflict file's content: after every
\* successful call made while the conflict file existed, the original path
\* holds a file with that content, also when the original path and the
\* conflict path are one and the same file.
C26_PromoteKeepsContent ==
    (Promoted /\ last.res.ok /\ IsFile(pre, last.conflict_file))
        => /\ IsFile(fs, last.original_file)
           /\ fs[last.original_file].content = pre[last.conflict_file].content

\* C27: a promote called while the conflict file does not exist leaves the
\* original in place, unchanged.
C27_PromoteWithoutConflictKeepsOriginal ==
    (Promoted /\ ~Exists(pre, last.conflict_file) /\ IsFile(pre, last.original_file))
        => fs[last.original_file] = pre[last.original_file]

\* C28: cleanup_older_than returns a result with counts whenever .stversions
\* exists: when a subdirectory cannot be listed, the files already deleted
\* are still reported and the empty-directory pass still runs.
C28_PruneAlwaysReports ==
    (Pruned /\ Exists(pre, PVersions))
        => /\ last.res.ok
           /\ last.res.val.files_deleted = Cardinality(RemovedFiles)
           /\ last.res.val.bytes_freed = SizeOf(RemovedFiles)

\* C30: a restore that returns an error leaves the filesystem exactly as it
\* was before the call: no destination file, no partial content, no newly
\* created parent directory.
C30_FailedRestoreChangesNothing ==
    (Restored /\ ~last.res.ok) => fs = pre

\* The directories of the versions tree, and the files at or below one.
VersionTreeDirs == {d \in DirPaths : d = PVersions \/ PVersions \in AncestorsOf[d]}
FilesBelow(f, d) == {p \in FilePaths : d \in AncestorsOf[p] /\ IsFile(f, p)}

\* C23: after a cleanup_older_than on which no filesystem call failed, no
\* empty directory remains in the versions tree: every directory left holds
\* a surviving file somewhere below it, every directory with a surviving
\* file below it is still there, and when no file survives .stversions
\* itself is gone, so that a following report has exists = false.
C23_NoEmptyDirectoryRemains ==
    (Pruned /\ last.res.ok /\ last.failed = {} /\ last.stuck = {})
        => /\ \A d \in VersionTreeDirs :
                /\ IsDir(fs, d) => FilesBelow(fs, d) # {}
                /\ (IsDir(pre, d) /\ FilesBelow(fs, d) # {}) => IsDir(fs, d)
           /\ FilesBelow(fs, PVersions) = {}
                => /\ ~Exists(fs, PVersions)
                   /\ \A env \in Envs :
                        StorageInfo(fs, env) = Ok(VersionStorageInfo(0, 0, FALSE))

\* C23 witness: the only file of the tree was in .stversions/s and was old;
\* the call removed it, then s, then .stversions.
C23_Witness ==
    /\ Pruned /\ last.res.ok /\ last.failed = {} /\ last.stuck = {}
    /\ IsFile(pre, PVNote) /\ ~IsFile(pre, PVDoc)
    /\ last.res.val.files_deleted = 1
    /\ ~Exists(fs, PVSub) /\ ~Exists(fs, PVersions)

\* C22: scan keeps no state between calls. After any sequence of discard,
\* promote, restore and cleanup, a scan returns exactly the conflict files
\* the folder holds at that moment, each with its size and modification time
\* of that moment, so every relative_path it returns names a file that
\* exists; and after a successful discard or promote of a conflict file no
\* scan of the folder returns a record for it.
C22_ScanIsFresh ==
    /\ Scanned
        => /\ last.res.ok
           /\ RecordPaths = Reportable(fs)
           /\ \A i \in 1..Len(last.res.val) :
                /\ IsFile(fs, last.res.val[i].name)
                /\ last.res.val[i] = ConflictRecord(fs, last.res.val[i].name)
    /\ ((Discarded \/ Promoted) /\ last.res.ok /\ IsFile(pre, last.conflict_file))
        => \A folder_path \in FolderArgs, env \in ScanEnvs :
              LET recs == ScanForConflicts(fs, folder_path, env).val
              IN  \A i \in 1..Len(recs) : recs[i].name # last.conflict_file

\* C22 witness: the conflict file every session starts with is gone, the
\* original holds a file, and the scan just made returned no record.
C22_Witness ==
    /\ Scanned /\ last.res.ok
    /\ ~Exists(fs, PConflict) /\ IsFile(fs, PDoc)
    /\ last.res.val = << >>

\* The last call was a read-only command that stopped before returning.
Interrupted == last.op = "interrupted"

\* C24: scan, list and report are read-only, also when stopped at any point
\* before returning: the filesystem after the call is the filesystem before.
C24_ReadOnly ==
    (Scanned \/ Listed \/ Reported \/ Interrupted) => fs = pre

\* C24 witness: a scan that returned the record of the conflict file, on a
\* folder that also holds a version file, left both in place.
C24_Witness ==
    /\ Scanned /\ last.res.ok /\ RecordPaths = {PConflict}
    /\ IsFile(fs, PVDoc)
    /\ fs = pre

\* C25: a scan of a finite tree in which a directory entry is a symbolic
\* link to an ancestor comes to an end and visits each real file at most
\* once: it returns no more records than the folder holds conflict files.
C25_EachFileVisitedOnce ==
    Scanned => Len(last.res.val) <= Cardinality(Reportable(pre))

\* C29 as stated: the overwrite gate holds under interleaving, that is, a
\* restore with overwrite=false never replaces a file that is at the
\* destination at the moment of its copy.
C29_GateHoldsAtCopy ==
    (Restored /\ ~last.overwrite /\ last.found.kind = "file")
        => fs[RestoreDest] = last.found

\* C29, amended: the gate is evaluated once, before the copy, and concurrent
\* commands are not coordinated. A restore with overwrite=false never
\* replaces a destination that existed when its gate was evaluated: it
\* returns the gate's error and writes nothing; whatever file it does
\* replace was put there after the gate was evaluated.
C29_GateHoldsAtCheck ==
    /\ (Restored /\ ~last.overwrite /\ Exists(pre, RestoreSource) /\ Exists(pre, RestoreDest))
        => /\ ~last.res.ok
           /\ last.found = pre[RestoreDest]
           /\ fs[RestoreDest] = pre[RestoreDest]
    /\ (Restored /\ ~last.overwrite /\ fs[RestoreDest] # last.found)
        => ~Exists(pre, RestoreDest)

\* C29 witness: the destination was absent when the gate was evaluated, a
\* concurrent command put a file with other bytes there, and the restore
\* with overwrite=false replaced it.
C29_Witness ==
    /\ Restored /\ ~last.overwrite /\ last.res.ok
    /\ ~Exists(pre, RestoreDest)
    /\ last.found.kind = "file"
    /\ last.found.content # fs[RestoreDest].content

====
